---- MODULE Spec2Model ----
(***************************************************************************)
(* A model of package sandbox (libsandbox): the Sandbox builder, the      *)
(* argument compiler BuildExecArgs and the construction of exec.Cmd        *)
(* handles by Command / CommandContext.                                    *)
(*                                                                         *)
(* Spec     : one caller thread that creates Sandbox values, calls their   *)
(*            methods and assigns the package variable Path.               *)
(* SpecRace : two goroutines calling the append-style setters without      *)
(*            synchronisation, each append split into the load of the      *)
(*            slice, the construction of the new slice and the store.      *)
(***************************************************************************)
EXTENDS Integers, Sequences, FiniteSets, TLC

VARIABLES
    Path,        \* the package variable Path
    sandboxes,   \* the Sandbox values created so far, in creation order
    cmds,        \* the *exec.Cmd handles returned so far, in creation order
    execArgs,    \* the request and return value of the latest BuildExecArgs call
    call,        \* history: the latest call the caller made
    lastSet,     \* history: per Sandbox, the last value passed to each scalar setter
    added,       \* history: per Sandbox, the arguments of its list-setter calls, per kind
    delta,       \* history: setter calls on execArgs' receiver since that call
    prev,        \* history: execArgs and delta as the latest BuildExecArgs call found them
    ncalls,      \* history: number of calls made so far
    slices,      \* SpecRace: per Sandbox and list field, the slice header stored in it
    heap,        \* SpecRace: the backing arrays the slice headers point into
    pc,          \* SpecRace: per goroutine, its position inside the setter it runs
    target,      \* SpecRace: per goroutine, the Sandbox and field of its call
    value,       \* SpecRace: per goroutine, the entry its call appends
    loaded,      \* SpecRace: per goroutine, the slice header it loaded / built
    done         \* SpecRace history: per goroutine, the calls that returned

seqVars  == <<Path, sandboxes, cmds, execArgs, call, lastSet, added, delta, prev, ncalls>>
raceVars == <<slices, heap, pc, target, value, loaded, done>>
vars     == <<Path, sandboxes, cmds, execArgs, call, lastSet, added, delta, prev, ncalls,
              slices, heap, pc, target, value, loaded, done>>

(***************************************************************************)
(* Bounds and input sets.                                                  *)
(***************************************************************************)
MaxCalls     == 3     \* calls the caller makes from the initial state
MaxSandboxes == 2     \* Sandbox values created
MaxAppends   == 3     \* SpecRace: setter calls the goroutines make in all

DefaultPath == "/usr/bin/sandbox"
Paths       == {DefaultPath, "/opt/sandbox"}
RootPaths   == {"/x", "/tmp/sb"}
FileInputs  == {<<"/bin/go", "/go", TRUE>>, <<"/etc/hosts", "/hosts", FALSE>>}
DirInputs   == {<<"/workspace", "/w">>}
EnvInputs   == {"PATH=/usr/bin", "--"}
CGroups     == {"", "cg"}
CpuSets     == {"", "0-3"}
MemLimits   == {0, 512}
StatFiles   == {"", "/stat"}
ExecDirs    == {"", "/w"}
Requests    == {<<"echo", <<"hi">>>>, <<"go", <<"test", "--">>>>}
NilCtx      == "nil"
Contexts    == {NilCtx, "ctx"}


(***************************************************************************)
(* strconv.FormatUint(v, 10): the decimal digits of v, most significant    *)
(* first.                                                                  *)
(***************************************************************************)
Digit(d) ==
    CASE d = 0 -> "0" [] d = 1 -> "1" [] d = 2 -> "2" [] d = 3 -> "3"
      [] d = 4 -> "4" [] d = 5 -> "5" [] d = 6 -> "6" [] d = 7 -> "7"
      [] d = 8 -> "8" [] d = 9 -> "9"

RECURSIVE FormatUint(_)
FormatUint(v) ==
    IF v < 10 THEN Digit(v) ELSE FormatUint(v \div 10) \o Digit(v % 10)

(***************************************************************************)
(* The Sandbox struct and New.                                             *)
(***************************************************************************)
New(path) ==
    [path |-> path, files |-> <<>>, mountDirs |-> <<>>, env |-> <<>>,
     noNewNet |-> FALSE, cgroup |-> "", cpuSet |-> "", memLimit |-> 0,
     saveUsageStat |-> "", execDir |-> ""]

file(src, dst, withLibs) == [src |-> src, dst |-> dst, withLibs |-> withLibs]
mountDir(src, dst)       == [src |-> src, dst |-> dst]

(***************************************************************************)
(* BuildExecArgs, loop by loop and append by append.                       *)
(***************************************************************************)
RECURSIVE RangeFiles(_, _, _)
RangeFiles(files, k, acc) ==
    IF k > Len(files) THEN acc
    ELSE LET f    == files[k]
             flag == IF f.withLibs THEN acc \o <<"--add_elf_file">>
                                   ELSE acc \o <<"--add_file">>
         IN  RangeFiles(files, k + 1, flag \o <<f.src, f.dst>>)

RECURSIVE RangeMountDirs(_, _, _)
RangeMountDirs(dirs, k, acc) ==
    IF k > Len(dirs) THEN acc
    ELSE RangeMountDirs(dirs, k + 1, acc \o <<"--mount_dir", dirs[k].src, dirs[k].dst>>)

RECURSIVE RangeEnv(_, _, _)
RangeEnv(env, k, acc) ==
    IF k > Len(env) THEN acc
    ELSE RangeEnv(env, k + 1, acc \o <<"--env", env[k]>>)

\* Faulty variants of BuildExecArgs: --cpuset emitted before --cgroup; --mem_limit
\* emitted for a zero limit too; the separator emitted after the program path.
BuildExecArgsVariant(s, path, args, cpuSetFirst, zeroLimit, sepLast) ==
    LET a3 == RangeEnv(s.env, 1,
                 RangeMountDirs(s.mountDirs, 1, RangeFiles(s.files, 1, <<s.path>>)))
        a4 == IF s.noNewNet THEN a3 \o <<"--no_new_net">> ELSE a3
        cg == IF s.cgroup # "" THEN <<"--cgroup", s.cgroup>> ELSE <<>>
        cs == IF s.cpuSet # "" THEN <<"--cpuset", s.cpuSet>> ELSE <<>>
        a6 == IF cpuSetFirst THEN (a4 \o cs) \o cg ELSE (a4 \o cg) \o cs
        a7 == IF s.memLimit # 0 \/ zeroLimit
              THEN a6 \o <<"--mem_limit", FormatUint(s.memLimit)>> ELSE a6
        a8 == IF s.saveUsageStat # ""
              THEN a7 \o <<"--save_usage_stat", s.saveUsageStat>> ELSE a7
        a9 == IF s.execDir # "" THEN a8 \o <<"--exec_dir", s.execDir>> ELSE a8
    IN  IF sepLast THEN (a9 \o <<path, "--">>) \o args
                   ELSE (a9 \o <<"--", path>>) \o args

BuildExecArgsCpuSetFirst(s, path, args) ==
    BuildExecArgsVariant(s, path, args, TRUE, FALSE, FALSE)
BuildExecArgsZeroLimit(s, path, args) ==
    BuildExecArgsVariant(s, path, args, FALSE, TRUE, FALSE)
BuildExecArgsSepAfterPath(s, path, args) ==
    BuildExecArgsVariant(s, path, args, FALSE, FALSE, TRUE)

BuildExecArgs(s, path, args) ==
    LET a0 == <<s.path>>
        a1 == RangeFiles(s.files, 1, a0)
        a2 == RangeMountDirs(s.mountDirs, 1, a1)
        a3 == RangeEnv(s.env, 1, a2)
        a4 == IF s.noNewNet THEN a3 \o <<"--no_new_net">> ELSE a3
        a5 == IF s.cgroup # "" THEN a4 \o <<"--cgroup", s.cgroup>> ELSE a4
        a6 == IF s.cpuSet # "" THEN a5 \o <<"--cpuset", s.cpuSet>> ELSE a5
        a7 == IF s.memLimit # 0
              THEN a6 \o <<"--mem_limit", FormatUint(s.memLimit)>> ELSE a6
        a8 == IF s.saveUsageStat # ""
              THEN a7 \o <<"--save_usage_stat", s.saveUsageStat>> ELSE a7
        a9 == IF s.execDir # "" THEN a8 \o <<"--exec_dir", s.execDir>> ELSE a8
    IN  (a9 \o <<"--", path>>) \o args

(***************************************************************************)
(* exec.Command(name, arg...) / exec.CommandContext(ctx, name, arg...):    *)
(* the handle keeps the context, the name and a copy of name + arg.        *)
(***************************************************************************)
execCommand(ctx, name, arg) == [ctx |-> ctx, Path |-> name, Args |-> <<name>> \o arg]

(***************************************************************************)
(* The operations of the package, as the caller's thread runs them: each   *)
(* is the whole method, on the Sandbox sandboxes[i].                       *)
(***************************************************************************)
CallNew(path) ==
    /\ Len(sandboxes) < MaxSandboxes
    /\ sandboxes' = Append(sandboxes, New(path))
    /\ UNCHANGED <<Path, cmds, execArgs>>

AddFile(i, src, dst, withLibs) ==
    /\ sandboxes' = [sandboxes EXCEPT ![i].files = Append(@, file(src, dst, withLibs))]
    /\ UNCHANGED <<Path, cmds, execArgs>>

MountDir(i, src, dst) ==
    /\ sandboxes' = [sandboxes EXCEPT ![i].mountDirs = Append(@, mountDir(src, dst))]
    /\ UNCHANGED <<Path, cmds, execArgs>>

\* Faulty variant: an entry already in the list is not added again.
AddEnvUnique(i, v) ==
    /\ sandboxes' = IF \E k \in 1..Len(sandboxes[i].env) : sandboxes[i].env[k] = v
                    THEN sandboxes
                    ELSE [sandboxes EXCEPT ![i].env = Append(@, v)]
    /\ UNCHANGED <<Path, cmds, execArgs>>

AddEnv(i, v) ==
    /\ sandboxes' = [sandboxes EXCEPT ![i].env = Append(@, v)]
    /\ UNCHANGED <<Path, cmds, execArgs>>

SetNoNewNet(i, v) ==
    /\ sandboxes' = [sandboxes EXCEPT ![i].noNewNet = v]
    /\ UNCHANGED <<Path, cmds, execArgs>>

SetCGroup(i, name) ==
    /\ sandboxes' = [sandboxes EXCEPT ![i].cgroup = name]
    /\ UNCHANGED <<Path, cmds, execArgs>>

\* Faulty variant: the value lands in the cgroup field.
SetCpuSetIntoCGroup(i, set) ==
    /\ sandboxes' = [sandboxes EXCEPT ![i].cgroup = set]
    /\ UNCHANGED <<Path, cmds, execArgs>>

SetCpuSet(i, set) ==
    /\ sandboxes' = [sandboxes EXCEPT ![i].cpuSet = set]
    /\ UNCHANGED <<Path, cmds, execArgs>>

SetMemLimit(i, limit) ==
    /\ sandboxes' = [sandboxes EXCEPT ![i].memLimit = limit]
    /\ UNCHANGED <<Path, cmds, execArgs>>

SaveUsageStat(i, filename) ==
    /\ sandboxes' = [sandboxes EXCEPT ![i].saveUsageStat = filename]
    /\ UNCHANGED <<Path, cmds, execArgs>>

\* Faulty variant: the directory also replaces the root path.
ExecDirMovesRoot(i, dir) ==
    /\ sandboxes' = [sandboxes EXCEPT ![i].execDir = dir, ![i].path = dir]
    /\ UNCHANGED <<Path, cmds, execArgs>>

ExecDir(i, dir) ==
    /\ sandboxes' = [sandboxes EXCEPT ![i].execDir = dir]
    /\ UNCHANGED <<Path, cmds, execArgs>>

\* Faulty variant: the separator and program path are appended to the
\* receiver's env list as well.
CallBuildExecArgsGrowsEnv(i, path, args) ==
    /\ execArgs' = [recv |-> i, path |-> path, args |-> args,
                    out |-> BuildExecArgs(sandboxes[i], path, args)]
    /\ sandboxes' = [sandboxes EXCEPT ![i].env = @ \o <<"--", path>>]
    /\ UNCHANGED <<Path, cmds>>

\* A direct call of s.BuildExecArgs(path, args); the caller keeps the result.
CallBuildExecArgs(i, path, args) ==
    /\ execArgs' = [recv |-> i, path |-> path, args |-> args,
                    out |-> BuildExecArgs(sandboxes[i], path, args)]
    /\ UNCHANGED <<Path, sandboxes, cmds>>

\* Faulty variant: the env list of the receiver is emptied once compiled.
CommandContextDrainsEnv(i, ctx, path, args) ==
    /\ cmds' = Append(cmds, execCommand(ctx, Path, BuildExecArgs(sandboxes[i], path, args)))
    /\ sandboxes' = [sandboxes EXCEPT ![i].env = <<>>]
    /\ UNCHANGED <<Path, execArgs>>

\* Faulty variant: the executable is the default location, not the value of Path.
CommandContextDefaultPath(i, ctx, path, args) ==
    /\ cmds' = Append(cmds, execCommand(ctx, DefaultPath,
                                        BuildExecArgs(sandboxes[i], path, args)))
    /\ UNCHANGED <<Path, sandboxes, execArgs>>

CommandContext(i, ctx, path, args) ==
    LET built == BuildExecArgs(sandboxes[i], path, args)
    IN  /\ cmds' = Append(cmds, IF ctx = NilCtx
                                THEN execCommand(NilCtx, Path, built)
                                ELSE execCommand(ctx, Path, built))
        /\ UNCHANGED <<Path, sandboxes, execArgs>>

Command(i, path, args) == CommandContext(i, NilCtx, path, args)

\* The caller assigns the exported package variable: sandbox.Path = p.
SetPath(p) ==
    /\ Path' = p
    /\ UNCHANGED <<sandboxes, cmds, execArgs>>

(***************************************************************************)
(* History of the calls (read by the properties only).                     *)
(***************************************************************************)
Scalars == [noNewNet |-> FALSE, cgroup |-> "", cpuSet |-> "", memLimit |-> 0,
            saveUsageStat |-> "", execDir |-> ""]
NoLists == [files |-> <<>>, mountDirs |-> <<>>, env |-> <<>>]
NoArgs  == [recv |-> 0, path |-> "", args |-> <<>>, out |-> <<>>]
Clean   == [kind |-> "clean"]

ScalarSetters == {"SetNoNewNet", "SetCGroup", "SetCpuSet", "SetMemLimit",
                  "SaveUsageStat", "ExecDir"}
ListSetters   == {"AddFile", "MountDir", "AddEnv"}
ListSetterFields == {"files", "mountDirs", "env"}
Compilers     == {"BuildExecArgs", "Command", "CommandContext"}

FieldOf(op) ==
    CASE op = "SetNoNewNet"   -> "noNewNet"
      [] op = "SetCGroup"     -> "cgroup"
      [] op = "SetCpuSet"     -> "cpuSet"
      [] op = "SetMemLimit"   -> "memLimit"
      [] op = "SaveUsageStat" -> "saveUsageStat"
      [] op = "ExecDir"       -> "execDir"
      [] op = "AddFile"       -> "files"
      [] op = "MountDir"      -> "mountDirs"
      [] op = "AddEnv"        -> "env"

Called(op, i, arg) ==
    /\ ncalls < MaxCalls
    /\ ncalls' = ncalls + 1
    /\ call' = [op |-> op, recv |-> i, arg |-> arg]
    /\ lastSet' = IF op = "New" THEN Append(lastSet, Scalars)
                  ELSE IF op \in ScalarSetters
                       THEN [lastSet EXCEPT ![i][FieldOf(op)] = arg]
                       ELSE lastSet
    /\ added' = IF op = "New" THEN Append(added, NoLists)
                ELSE IF op \in ListSetters
                     THEN [added EXCEPT ![i][FieldOf(op)] = Append(@, arg)]
                     ELSE added
    /\ delta' = IF op = "BuildExecArgs" THEN Clean
                ELSE IF op \in (ScalarSetters \cup ListSetters) /\ i = execArgs.recv
                     THEN IF delta.kind = "clean"
                          THEN [kind |-> "one", op |-> op, arg |-> arg,
                                old |-> sandboxes[i][FieldOf(op)]]
                          ELSE [kind |-> "many"]
                     ELSE delta
    /\ prev' = IF op = "BuildExecArgs" THEN [args |-> execArgs, delta |-> delta]
               ELSE prev
    /\ UNCHANGED raceVars

Receivers == 1..Len(sandboxes)

RaceIdle ==
    /\ slices = <<>> /\ heap = <<>>
    /\ pc = <<>> /\ target = <<>> /\ value = <<>> /\ loaded = <<>> /\ done = <<>>

\* The configuration of the README's usage example:
\* New("/tmp/sb").AddFile("/bin/go", "/go", true).MountDir("/workspace", "/w").
\*   AddEnv("PATH=/usr/bin").SetNoNewNet(true).SetMemLimit(512).ExecDir("/w")
Example ==
    [New("/tmp/sb") EXCEPT !.files = <<file("/bin/go", "/go", TRUE)>>,
                           !.mountDirs = <<mountDir("/workspace", "/w")>>,
                           !.env = <<"PATH=/usr/bin">>,
                           !.noNewNet = TRUE, !.memLimit = 512, !.execDir = "/w"]

\* The first Sandbox is either fresh from New or configured as in the example;
\* the history starts as the calls that built it.
Init ==
    /\ Path = DefaultPath
    /\ \/ /\ sandboxes = <<New("/x")>>
          /\ call = [op |-> "New", recv |-> 1, arg |-> "/x"]
          /\ lastSet = <<Scalars>>
          /\ added = <<NoLists>>
       \/ /\ sandboxes = <<Example>>
          /\ call = [op |-> "ExecDir", recv |-> 1, arg |-> "/w"]
          /\ lastSet = <<[Scalars EXCEPT !.noNewNet = TRUE, !.memLimit = 512,
                                         !.execDir = "/w"]>>
          /\ added = <<[files |-> << <<"/bin/go", "/go", TRUE>> >>,
                        mountDirs |-> << <<"/workspace", "/w">> >>,
                        env |-> <<"PATH=/usr/bin">>]>>
    /\ cmds = <<>>
    /\ execArgs = NoArgs
    /\ delta = Clean
    /\ prev = [args |-> NoArgs, delta |-> Clean]
    /\ ncalls = 0
    /\ RaceIdle

Next ==
    \/ \E p \in RootPaths : CallNew(p) /\ Called("New", Len(sandboxes) + 1, p)
    \/ \E i \in Receivers, f \in FileInputs :
          AddFile(i, f[1], f[2], f[3]) /\ Called("AddFile", i, f)
    \/ \E i \in Receivers, d \in DirInputs :
          MountDir(i, d[1], d[2]) /\ Called("MountDir", i, d)
    \/ \E i \in Receivers, e \in EnvInputs : AddEnv(i, e) /\ Called("AddEnv", i, e)
    \/ \E i \in Receivers, v \in BOOLEAN :
          SetNoNewNet(i, v) /\ Called("SetNoNewNet", i, v)
    \/ \E i \in Receivers, v \in CGroups : SetCGroup(i, v) /\ Called("SetCGroup", i, v)
    \/ \E i \in Receivers, v \in CpuSets : SetCpuSet(i, v) /\ Called("SetCpuSet", i, v)
    \/ \E i \in Receivers, v \in MemLimits :
          SetMemLimit(i, v) /\ Called("SetMemLimit", i, v)
    \/ \E i \in Receivers, v \in StatFiles :
          SaveUsageStat(i, v) /\ Called("SaveUsageStat", i, v)
    \/ \E i \in Receivers, v \in ExecDirs : ExecDir(i, v) /\ Called("ExecDir", i, v)
    \/ \E i \in Receivers, r \in Requests :
          CallBuildExecArgs(i, r[1], r[2]) /\ Called("BuildExecArgs", i, r)
    \/ \E i \in Receivers, r \in Requests :
          Command(i, r[1], r[2]) /\ Called("Command", i, <<NilCtx, r[1], r[2]>>)
    \/ \E i \in Receivers, c \in Contexts, r \in Requests :
          CommandContext(i, c, r[1], r[2])
             /\ Called("CommandContext", i, <<c, r[1], r[2]>>)
    \/ \E p \in Paths : SetPath(p) /\ Called("SetPath", 0, p)

Spec == Init /\ [][Next]_vars

(***************************************************************************)
(* SpecRace.  Two goroutines call AddFile / MountDir / AddEnv with no      *)
(* synchronisation.  The statement  s.f = append(s.f, e)  is three steps:  *)
(* the load of the slice header s.f, the append (in place when the backing *)
(* array has room, into a fresh larger array otherwise) and the store of   *)
(* the new header into s.f.  A header is [ptr, len]; its capacity is the   *)
(* length of the array heap[ptr]; ptr = 0 is the nil slice.  Headers are   *)
(* loaded and stored as a unit.                                            *)
(***************************************************************************)
Goroutines == {1, 2}
Instances  == {1, 2}
Fields     == {"files", "mountDirs", "env"}
Zero       == ""                     \* an array cell never written
NilSlice   == [ptr |-> 0, len |-> 0]
NoTarget   == <<0, "">>              \* no call in progress

Entries(f) ==
    CASE f = "files"     -> {file("/bin/go", "/go", TRUE)}
      [] f = "mountDirs" -> {mountDir("/workspace", "/w")}
      [] f = "env"       -> {"PATH=/usr/bin"}

Cap(h) == IF h.ptr = 0 THEN 0 ELSE Len(heap[h.ptr])

\* The capacities append may give a new array for a slice of length n + 1.
NewCaps(n) == {n + 1, n + 2}

\* The elements of the slice h.
Elems(h) == IF h.ptr = 0 THEN <<>> ELSE SubSeq(heap[h.ptr], 1, h.len)

\* Calls entered so far.
Started == Len(done[1]) + Len(done[2]) + Cardinality({g \in Goroutines : pc[g] # "idle"})

\* The setter is entered: receiver, field and entry are fixed.
RaceCall(g, i, f, e) ==
    /\ pc[g] = "idle"
    /\ Started < MaxAppends
    /\ pc' = [pc EXCEPT ![g] = "load"]
    /\ target' = [target EXCEPT ![g] = <<i, f>>]
    /\ value' = [value EXCEPT ![g] = e]
    /\ UNCHANGED <<slices, heap, loaded, done>>

\* The operand s.f of append is read.
RaceLoad(g) ==
    /\ pc[g] = "load"
    /\ loaded' = [loaded EXCEPT ![g] = slices[target[g][1]][target[g][2]]]
    /\ pc' = [pc EXCEPT ![g] = "append"]
    /\ UNCHANGED <<slices, heap, target, value, done>>

\* append(loaded, value): in place when len < cap, else copy into a new array.
RaceAppend(g) ==
    /\ pc[g] = "append"
    /\ LET h == loaded[g]
       IN  IF h.len < Cap(h)
           THEN /\ heap' = [heap EXCEPT ![h.ptr][h.len + 1] = value[g]]
                /\ loaded' = [loaded EXCEPT ![g] = [ptr |-> h.ptr, len |-> h.len + 1]]
           ELSE \E c \in NewCaps(h.len) :
                /\ heap' = Append(heap, [k \in 1..c |->
                                IF k <= h.len THEN heap[h.ptr][k]
                                ELSE IF k = h.len + 1 THEN value[g] ELSE Zero])
                /\ loaded' = [loaded EXCEPT ![g] =
                                [ptr |-> Len(heap) + 1, len |-> h.len + 1]]
    /\ pc' = [pc EXCEPT ![g] = "store"]
    /\ UNCHANGED <<slices, target, value, done>>

\* Faulty variant: every Sandbox shares the one struct the header is stored in.
RaceStoreAllInstances(g) ==
    /\ pc[g] = "store"
    /\ slices' = [i \in Instances |-> [slices[i] EXCEPT ![target[g][2]] = loaded[g]]]
    /\ done' = [done EXCEPT ![g] = Append(@, <<target[g][1], target[g][2], value[g]>>)]
    /\ pc' = [pc EXCEPT ![g] = "idle"]
    /\ loaded' = [loaded EXCEPT ![g] = NilSlice]
    /\ target' = [target EXCEPT ![g] = NoTarget]
    /\ value' = [value EXCEPT ![g] = Zero]
    /\ UNCHANGED heap

\* The result is assigned to s.f and the setter returns s.
RaceStore(g) ==
    /\ pc[g] = "store"
    /\ slices' = [slices EXCEPT ![target[g][1]][target[g][2]] = loaded[g]]
    /\ done' = [done EXCEPT ![g] = Append(@, <<target[g][1], target[g][2], value[g]>>)]
    /\ pc' = [pc EXCEPT ![g] = "idle"]
    /\ loaded' = [loaded EXCEPT ![g] = NilSlice]
    /\ target' = [target EXCEPT ![g] = NoTarget]
    /\ value' = [value EXCEPT ![g] = Zero]
    /\ UNCHANGED heap

RaceInit ==
    /\ Path = DefaultPath
    /\ sandboxes = <<New("/x"), New("/tmp/sb")>>
    /\ call = [op |-> "New", recv |-> 2, arg |-> "/tmp/sb"]
    /\ lastSet = <<Scalars, Scalars>>
    /\ added = <<NoLists, NoLists>>
    /\ cmds = <<>>
    /\ execArgs = NoArgs
    /\ delta = Clean
    /\ prev = [args |-> NoArgs, delta |-> Clean]
    /\ ncalls = 0
    /\ slices = [i \in Instances |-> [f \in Fields |-> NilSlice]]
    /\ heap = <<>>
    /\ pc = [g \in Goroutines |-> "idle"]
    /\ target = [g \in Goroutines |-> NoTarget]
    /\ value = [g \in Goroutines |-> Zero]
    /\ loaded = [g \in Goroutines |-> NilSlice]
    /\ done = [g \in Goroutines |-> <<>>]

RaceNext ==
    \/ \E g \in Goroutines, i \in Instances, f \in Fields :
          \E e \in Entries(f) : RaceCall(g, i, f, e) /\ UNCHANGED seqVars
    \/ \E g \in Goroutines : RaceLoad(g) /\ UNCHANGED seqVars
    \/ \E g \in Goroutines : RaceAppend(g) /\ UNCHANGED seqVars
    \/ \E g \in Goroutines : RaceStore(g) /\ UNCHANGED seqVars

SpecRace == RaceInit /\ [][RaceNext]_vars

(***************************************************************************)
(* Vocabulary of the properties: the argument grammar as documented,       *)
(* written without reference to BuildExecArgs.                             *)
(***************************************************************************)
RECURSIVE Concat(_)
Concat(ss) == IF ss = <<>> THEN <<>> ELSE Head(ss) \o Concat(Tail(ss))

CountIn(seq, tok) == Cardinality({k \in 1..Len(seq) : seq[k] = tok})

InsertAt(seq, n, ins) == SubSeq(seq, 1, n) \o ins \o SubSeq(seq, n + 1, Len(seq))

\* Decimal notation of the memory limits the model uses.
Decimal(n) == CASE n = 0 -> "0" [] n = 512 -> "512"

FileGroup(src, dst, withLibs) ==
    <<IF withLibs THEN "--add_elf_file" ELSE "--add_file", src, dst>>

ListTokens(s) ==
    Concat([k \in 1..Len(s.files) |->
               FileGroup(s.files[k].src, s.files[k].dst, s.files[k].withLibs)])
    \o Concat([k \in 1..Len(s.mountDirs) |->
               <<"--mount_dir", s.mountDirs[k].src, s.mountDirs[k].dst>>])
    \o Concat([k \in 1..Len(s.env) |-> <<"--env", s.env[k]>>])

OptionalFields == <<"cgroup", "cpuSet", "memLimit", "saveUsageStat", "execDir">>

FlagOf(fld) ==
    CASE fld = "cgroup"        -> "--cgroup"
      [] fld = "cpuSet"        -> "--cpuset"
      [] fld = "memLimit"      -> "--mem_limit"
      [] fld = "saveUsageStat" -> "--save_usage_stat"
      [] fld = "execDir"       -> "--exec_dir"

IsDefault(fld, v) == IF fld = "memLimit" THEN v = 0 ELSE v = ""
Rendered(fld, v)  == IF fld = "memLimit" THEN Decimal(v) ELSE v

OptionGroup(s, fld) ==
    IF IsDefault(fld, s[fld]) THEN <<>> ELSE <<FlagOf(fld), Rendered(fld, s[fld])>>

ExpectedArgs(s, path, args) ==
    <<s.path>>
    \o ListTokens(s)
    \o (IF s.noNewNet THEN <<"--no_new_net">> ELSE <<>>)
    \o Concat([k \in 1..Len(OptionalFields) |-> OptionGroup(s, OptionalFields[k])])
    \o <<"--">> \o <<path>> \o args

Compiled == execArgs.recv # 0                     \* BuildExecArgs has been called
Fresh    == Compiled /\ delta.kind = "clean"      \* and its receiver is as it was then
Receiver == sandboxes[execArgs.recv]

\* C1: whatever calls built the configuration, BuildExecArgs returns exactly the
\* documented concatenation: root path, file groups, mount groups, env groups,
\* --no_new_net, the optional flag/value pairs in their order, "--", the program
\* path and the arguments.
C1_ArgsContract ==
    /\ Fresh => execArgs.out = ExpectedArgs(Receiver, execArgs.path, execArgs.args)
    /\ \A i \in Receivers, r \in Requests :
          BuildExecArgs(sandboxes[i], r[1], r[2]) = ExpectedArgs(sandboxes[i], r[1], r[2])

C1_Witness ==
    /\ Fresh
    /\ execArgs.out = <<"/tmp/sb", "--add_elf_file", "/bin/go", "/go",
                        "--mount_dir", "/workspace", "/w", "--env", "PATH=/usr/bin",
                        "--no_new_net", "--cgroup", "cg", "--mem_limit", "512",
                        "--exec_dir", "/w", "--", "go", "test", "--">>

\* The strings the caller supplied that appear as tokens of the vector, counted:
\* how many of them equal tok.
Supplied(s, path, args, tok) ==
    LET one(v) == IF v = tok THEN 1 ELSE 0
    IN  one(s.path)
        + Cardinality({k \in 1..Len(s.files) : s.files[k].src = tok})
        + Cardinality({k \in 1..Len(s.files) : s.files[k].dst = tok})
        + Cardinality({k \in 1..Len(s.mountDirs) : s.mountDirs[k].src = tok})
        + Cardinality({k \in 1..Len(s.mountDirs) : s.mountDirs[k].dst = tok})
        + CountIn(s.env, tok)
        + (IF s.cgroup # "" THEN one(s.cgroup) ELSE 0)
        + (IF s.cpuSet # "" THEN one(s.cpuSet) ELSE 0)
        + (IF s.saveUsageStat # "" THEN one(s.saveUsageStat) ELSE 0)
        + (IF s.execDir # "" THEN one(s.execDir) ELSE 0)
        + one(path) + CountIn(args, tok)

\* C2 as claimed: in the returned vector "--" appears exactly once, immediately
\* before the program path, whatever the configuration and the request hold.
C2_SeparatorOnce ==
    Compiled =>
        LET out == execArgs.out
            n   == Len(out) - Len(execArgs.args)
        IN  /\ CountIn(out, "--") = 1
            /\ out[n - 1] = "--"
            /\ out[n] = execArgs.path

\* C2 amended: the separator "--" is emitted once, immediately before the
\* program path, which the arguments follow; every other "--" of the vector is
\* a string the caller supplied (an env entry, an argument, ...), passed as is.
C2_SeparatorEmittedOnce ==
    Compiled =>
        LET out == execArgs.out
            n   == Len(out) - Len(execArgs.args)
        IN  /\ n >= 3
            /\ out[n - 1] = "--"
            /\ out[n] = execArgs.path
            /\ SubSeq(out, n + 1, Len(out)) = execArgs.args
            /\ Fresh => CountIn(out, "--")
                          = 1 + Supplied(Receiver, execArgs.path, execArgs.args, "--")

C2_Witness ==
    /\ Fresh
    /\ CountIn(Receiver.env, "--") = 1
    /\ execArgs.args = <<"hi">>
    /\ CountIn(execArgs.out, "--") = 2

NoNewNetTokens(s) == IF s.noNewNet THEN 1 ELSE 0

\* Tokens emitted for the root path and the three lists.
ListPartLen(s) == 1 + 3 * Len(s.files) + 3 * Len(s.mountDirs) + 2 * Len(s.env)

\* The optional fields of s that are set, among the first n of the documented order.
SetAmong(s, n) == {k \in 1..n : ~IsDefault(OptionalFields[k], s[OptionalFields[k]])}

IndexOf(fld) == CHOOSE k \in 1..Len(OptionalFields) : OptionalFields[k] = fld

\* The documented position of an optional field's pair: the number of tokens before it.
Position(s, fld) ==
    ListPartLen(s) + NoNewNetTokens(s) + 2 * Cardinality(SetAmong(s, IndexOf(fld) - 1))

OptionalSetters == {"SetCGroup", "SetCpuSet", "SetMemLimit", "SaveUsageStat", "ExecDir"}

SameRequest == /\ prev.args.recv = execArgs.recv
               /\ prev.args.path = execArgs.path
               /\ prev.args.args = execArgs.args

\* C3: an optional scalar at its default contributes no tokens (the vector has
\* one pair per set field and no more, and the field's flag is not in it unless
\* the caller supplied a string spelled like it); setting only that field to a
\* non-default value and compiling the same request again gives the previous
\* vector with the pair (flag, value) inserted at the documented position.
C3_Omission ==
    /\ Fresh =>
          /\ Len(execArgs.out) = ListPartLen(Receiver) + NoNewNetTokens(Receiver)
                                   + 2 * Cardinality(SetAmong(Receiver, Len(OptionalFields)))
                                   + 2 + Len(execArgs.args)
          /\ \A k \in 1..Len(OptionalFields) :
                LET fld == OptionalFields[k]
                IN  (/\ IsDefault(fld, Receiver[fld])
                     /\ Supplied(Receiver, execArgs.path, execArgs.args, FlagOf(fld)) = 0)
                    => CountIn(execArgs.out, FlagOf(fld)) = 0
    /\ (/\ Fresh /\ SameRequest
        /\ prev.delta.kind = "one"
        /\ prev.delta.op \in OptionalSetters
        /\ IsDefault(FieldOf(prev.delta.op), prev.delta.old)
        /\ ~IsDefault(FieldOf(prev.delta.op), prev.delta.arg))
       => LET fld == FieldOf(prev.delta.op)
          IN  execArgs.out = InsertAt(prev.args.out, Position(Receiver, fld),
                                      <<FlagOf(fld), Rendered(fld, prev.delta.arg)>>)

C3_Witness ==
    /\ Fresh /\ SameRequest
    /\ prev.delta.kind = "one"
    /\ prev.delta.op = "SetCGroup"
    /\ prev.delta.old = "" /\ prev.delta.arg = "cg"
    /\ Receiver = [Example EXCEPT !.cgroup = "cg"]
    /\ CountIn(prev.args.out, "--cgroup") = 0
    /\ execArgs.out[11] = "--cgroup" /\ execArgs.out[12] = "cg"

ScalarFields == {"noNewNet", "cgroup", "cpuSet", "memLimit", "saveUsageStat", "execDir"}

\* C4: each scalar field holds the value last passed to its own setter (its
\* default when the setter was never called), however the setters interleave,
\* and the next compile emits the options of exactly those values: a field set
\* back to its default has no flag in it.
C4_LastWriteWins ==
    /\ \A i \in Receivers, fld \in ScalarFields : sandboxes[i][fld] = lastSet[i][fld]
    /\ Fresh =>
          LET last == lastSet[execArgs.recv]
              from == ListPartLen(Receiver) + 1
              to   == Len(execArgs.out) - Len(execArgs.args) - 2
          IN  SubSeq(execArgs.out, from, to)
                = (IF last.noNewNet THEN <<"--no_new_net">> ELSE <<>>)
                  \o Concat([k \in 1..Len(OptionalFields) |->
                                OptionGroup(last, OptionalFields[k])])

C4_Witness ==
    /\ Fresh /\ SameRequest
    /\ prev.delta.kind = "one"
    /\ prev.delta.op = "SetMemLimit"
    /\ prev.delta.old = 512 /\ prev.delta.arg = 0
    /\ CountIn(prev.args.out, "--mem_limit") = 1
    /\ CountIn(execArgs.out, "--mem_limit") = 0
    /\ lastSet[execArgs.recv].memLimit = 0

\* The groups of the list-setter calls made on a Sandbox, files then mounts then env.
CallGroups(a) ==
    Concat([k \in 1..Len(a.files) |->
               FileGroup(a.files[k][1], a.files[k][2], a.files[k][3])])
    \o Concat([k \in 1..Len(a.mountDirs) |->
               <<"--mount_dir", a.mountDirs[k][1], a.mountDirs[k][2]>>])
    \o Concat([k \in 1..Len(a.env) |-> <<"--env", a.env[k]>>])

GroupsLen(a) == 3 * Len(a.files) + 3 * Len(a.mountDirs) + 2 * Len(a.env)

\* C5: the compiled vector holds, right after the root path, one group per
\* AddFile / MountDir / AddEnv call, equal entries included, each kind in the
\* order of its calls, all file groups before all mount groups before all env
\* groups, however the calls were interleaved.
C5_InsertionOrder ==
    /\ \A i \in Receivers, r \in Requests :
          LET out == BuildExecArgs(sandboxes[i], r[1], r[2])
          IN  /\ Len(out) >= 1 + GroupsLen(added[i])
              /\ SubSeq(out, 2, 1 + GroupsLen(added[i])) = CallGroups(added[i])
    /\ Fresh =>
          /\ Len(execArgs.out) >= 1 + GroupsLen(added[execArgs.recv])
          /\ SubSeq(execArgs.out, 2, 1 + GroupsLen(added[execArgs.recv]))
                = CallGroups(added[execArgs.recv])
          /\ CountIn(execArgs.out, "--env")
                = Len(added[execArgs.recv].env)
                  + Supplied(Receiver, execArgs.path, execArgs.args, "--env")

C5_Witness ==
    /\ Fresh
    /\ added[execArgs.recv].env = <<"PATH=/usr/bin", "PATH=/usr/bin">>
    /\ Len(added[execArgs.recv].files) = 2
    /\ ncalls = 3
    /\ SubSeq(execArgs.out, 11, 14) = <<"--env", "PATH=/usr/bin", "--env", "PATH=/usr/bin">>

\* C7: two BuildExecArgs calls on the same Sandbox with the same request and no
\* setter call on it in between return identical vectors.
C7_Idempotent ==
    (Compiled /\ SameRequest /\ prev.delta.kind = "clean")
        => execArgs.out = prev.args.out

C7_Witness ==
    /\ Compiled /\ SameRequest /\ prev.delta.kind = "clean"
    /\ Len(cmds) = 1
    /\ Len(execArgs.out) = 18

\* The handle the latest Command / CommandContext call returned, after the step.
NewCmd == cmds'[Len(cmds')]

\* C6: a BuildExecArgs, Command or CommandContext call leaves every field of
\* every Sandbox as it was, and what it returns is the documented vector of the
\* receiver's configuration and of this call's request, whatever was compiled
\* before.
C6_CompileFrame ==
    [][(ncalls' # ncalls /\ call'.op \in Compilers) =>
          /\ sandboxes' = sandboxes
          /\ call'.op = "BuildExecArgs" =>
                execArgs'.out = ExpectedArgs(sandboxes'[call'.recv],
                                             call'.arg[1], call'.arg[2])
          /\ call'.op # "BuildExecArgs" =>
                /\ Len(cmds') = Len(cmds) + 1
                /\ Tail(NewCmd.Args) = ExpectedArgs(sandboxes'[call'.recv],
                                                    call'.arg[2], call'.arg[3])
      ]_vars

C6_Witness ==
    /\ sandboxes = <<Example>>
    /\ Compiled /\ Len(cmds) = 2
    /\ call.op = "CommandContext"
    /\ cmds[1].Args # cmds[2].Args
    /\ Tail(cmds[1].Args) = execArgs.out

AllFields == ScalarFields \cup ListSetterFields \cup {"path"}

Entry(op, arg) ==
    CASE op = "AddFile"  -> [src |-> arg[1], dst |-> arg[2], withLibs |-> arg[3]]
      [] op = "MountDir" -> [src |-> arg[1], dst |-> arg[2]]
      [] op = "AddEnv"   -> arg

\* C9: New gives a Sandbox with the given root path, empty lists and default
\* scalars and touches no other Sandbox; a list setter appends its entry at the
\* end of its own list of its receiver and a scalar setter assigns its own
\* scalar of its receiver, and neither changes any other field (the root path
\* included) or any other Sandbox.
C9_SetterFrame ==
    [][ncalls' # ncalls =>
          /\ Len(sandboxes') >= Len(sandboxes)
          /\ \A j \in 1..Len(sandboxes) : sandboxes'[j].path = sandboxes[j].path
          /\ call'.op = "New" =>
                /\ Len(sandboxes') = Len(sandboxes) + 1
                /\ SubSeq(sandboxes', 1, Len(sandboxes)) = sandboxes
                /\ LET s == sandboxes'[Len(sandboxes')]
                   IN  /\ s.path = call'.arg
                       /\ s.files = <<>> /\ s.mountDirs = <<>> /\ s.env = <<>>
                       /\ \A fld \in ScalarFields : s[fld] = Scalars[fld]
          /\ call'.op \in ListSetters \cup ScalarSetters =>
                /\ Len(sandboxes') = Len(sandboxes)
                /\ \A j \in 1..Len(sandboxes) :
                      j # call'.recv => sandboxes'[j] = sandboxes[j]
                /\ \A fld \in AllFields :
                      fld # FieldOf(call'.op) =>
                         sandboxes'[call'.recv][fld] = sandboxes[call'.recv][fld]
          /\ call'.op \in ListSetters =>
                sandboxes'[call'.recv][FieldOf(call'.op)]
                   = Append(sandboxes[call'.recv][FieldOf(call'.op)],
                            Entry(call'.op, call'.arg))
          /\ call'.op \in ScalarSetters =>
                sandboxes'[call'.recv][FieldOf(call'.op)] = call'.arg
      ]_vars

C9_Witness ==
    /\ Len(sandboxes) = 2
    /\ sandboxes[1] = Example
    /\ sandboxes[2] = [New("/x") EXCEPT !.mountDirs = <<mountDir("/workspace", "/w")>>,
                                        !.execDir = "/w"]
    /\ call.op = "ExecDir" /\ call.recv = 2

\* C10: the handle Command / CommandContext returns names the value Path has
\* at the call as its executable and carries BuildExecArgs' output for the
\* receiver as it is at the call; Command gives the handle of CommandContext
\* with a nil context; no later assignment to Path and no later setter call
\* changes a handle already returned.
C10_HandleSnapshot ==
    [][/\ Len(cmds') >= Len(cmds)
       /\ SubSeq(cmds', 1, Len(cmds)) = cmds
       /\ (ncalls' # ncalls /\ call'.op \in {"Command", "CommandContext"}) =>
             /\ Len(cmds') = Len(cmds) + 1
             /\ NewCmd.Path = Path
             /\ NewCmd.Args = <<Path>> \o BuildExecArgs(sandboxes[call'.recv],
                                                        call'.arg[2], call'.arg[3])
             /\ NewCmd.ctx = call'.arg[1]
             /\ call'.op = "Command" => NewCmd.ctx = NilCtx
       /\ (ncalls' # ncalls /\ call'.op \notin {"Command", "CommandContext"}) =>
             cmds' = cmds
      ]_vars

C10_Witness ==
    /\ Len(cmds) = 2
    /\ cmds[1].Path = DefaultPath /\ cmds[2].Path = "/opt/sandbox"
    /\ cmds[1].ctx = NilCtx /\ cmds[2].ctx = "ctx"
    /\ Path = "/opt/sandbox"
    /\ Tail(Tail(cmds[1].Args)) = Tail(Tail(cmds[2].Args))

\* The goroutines that have called, or are calling, a setter of Sandbox i.
Users(i) ==
    {g \in Goroutines : \/ pc[g] # "idle" /\ target[g][1] = i
                        \/ \E k \in 1..Len(done[g]) : done[g][k][1] = i}

\* The entries of the calls on field f of Sandbox i that goroutine g completed, in order.
RECURSIVE EntriesOf(_, _, _)
EntriesOf(calls, i, f) ==
    IF calls = <<>> THEN <<>>
    ELSE (IF Head(calls)[1] = i /\ Head(calls)[2] = f THEN <<Head(calls)[3]>> ELSE <<>>)
         \o EntriesOf(Tail(calls), i, f)

Completed(i, f) == Len(EntriesOf(done[1], i, f)) + Len(EntriesOf(done[2], i, f))

\* C8: a Sandbox only one goroutine calls setters on holds, in each list,
\* exactly the entries of that goroutine's completed calls in call order,
\* whatever the other goroutine does to another Sandbox at the same time (a
\* Sandbox nobody calls stays empty).  On a Sandbox both goroutines append to,
\* entries can be lost: C8_Witness is such a state.
C8_RaceIsolation ==
    \A i \in Instances :
        Cardinality(Users(i)) <= 1 =>
            \A f \in Fields :
                \/ /\ \A g \in Goroutines : EntriesOf(done[g], i, f) = <<>>
                   /\ Elems(slices[i][f]) = <<>>
                \/ \E g \in Users(i) : Elems(slices[i][f]) = EntriesOf(done[g], i, f)

C8_Witness ==
    /\ \A g \in Goroutines : pc[g] = "idle"
    /\ Users(1) = Goroutines
    /\ Completed(1, "env") = 2
    /\ \A g \in Goroutines : Len(EntriesOf(done[g], 1, "env")) = 1
    /\ Len(Elems(slices[1]["env"])) = 1
    /\ Users(2) = {1}
    /\ Elems(slices[2]["files"]) = EntriesOf(done[1], 2, "files")
    /\ Len(Elems(slices[2]["files"])) = 1

====
